---- MODULE Spec2Model ----
(***************************************************************************)
(* Manufacturing Quote Risk Analyzer (src/app.py), a Streamlit script.     *)
(*                                                                         *)
(* The script is re-executed from its first line on every user             *)
(* interaction ("rerun").  What survives between reruns is the widget      *)
(* state kept by the session and the process-wide numpy generator; the     *)
(* script's locals and the rendered page are rebuilt by every rerun.       *)
(*                                                                         *)
(* Numbers.  The script computes in binary floating point; the model       *)
(* computes the same expressions in exact fixed point:                     *)
(*   material_total, labor_hours_sim, labor_cost, direct_costs             *)
(*                       in hundredths            (value * Hundred)        *)
(*   total_quote         value * QuoteScale       (Hundred * Step * Step)  *)
(*   percentiles         value * QuoteScale * Twenty                       *)
(*   mean_cost           the pair sum / count of total_quote               *)
(* The multipliers are held in units of 0.05 (27 is 1.35).  The standard   *)
(* normal variates are integers.  Values are kept small because the model  *)
(* checker computes in 32 bit integers.                                    *)
(***************************************************************************)
EXTENDS Integers, Sequences, FiniteSets, TLC

\* --------------------------------------------------------------- the state
VARIABLES
  widget,         \* the session's widget values, by field
  n_simulations,  \* the trial count the script assigns
  rng,            \* the process-wide numpy generator
  page,           \* what the last rerun computed and rendered
  invalid,        \* the number_input showing a range message, or "none"
  first           \* history: the first run's page and the runs so far (SpecSeed)

vars == <<widget, n_simulations, rng, page, invalid, first>>

\* ---------------------------------------------------------------- bounds
\* Largest trial count the model runs (n_simulations is 10000 in the source).
MaxN == 3
\* Length of the generator's output cycle.
TapeLen == 3

\* ------------------------------------------------------------- constants
\* The 100 of "uncertainty / 100".
Hundred == 100
\* Multiplier units per 1.0: the widgets' step is 0.05.
Step == 20
\* Percentile units per 1: q / 100 is (q / 5) / Twenty for the q used.
Twenty == Hundred \div 5
QuoteScale == Hundred * Step * Step

Fields ==
  {"material_cost", "material_uncertainty", "machining_hours",
   "labor_uncertainty", "labor_rate", "overhead_multiplier", "profit_margin"}

\* The sliders; every other field is a number_input.
Sliders == {"material_uncertainty", "labor_uncertainty"}

min_value ==
  [material_cost |-> 100, material_uncertainty |-> 5, machining_hours |-> 1,
   labor_uncertainty |-> 10, labor_rate |-> 30, overhead_multiplier |-> 20,
   profit_margin |-> 20]

max_value ==
  [material_cost |-> 50000, material_uncertainty |-> 40, machining_hours |-> 500,
   labor_uncertainty |-> 50, labor_rate |-> 200, overhead_multiplier |-> 60,
   profit_margin |-> 40]

\* value= of each widget.  material_cost and machining_hours start at their
\* minimum here (3500 and 35.0 in the source) to keep the products in range.
value ==
  [material_cost |-> 100, material_uncertainty |-> 12, machining_hours |-> 1,
   labor_uncertainty |-> 20, labor_rate |-> 75, overhead_multiplier |-> 27,
   profit_margin |-> 23]

\* What a user types or drags to, per widget.  A slider cannot leave its
\* track; a number_input takes any typed number.
Entries ==
  [material_cost |-> {0, 100, 200, 50100},
   material_uncertainty |-> {12, 40},
   machining_hours |-> {0, 1, 2, 501},
   labor_uncertainty |-> {20, 50},
   labor_rate |-> {29, 30, 75, 201},
   overhead_multiplier |-> {19, 20, 27, 61},
   profit_margin |-> {19, 20, 23, 41}]

\* Variant: only the upper bound is enforced.
Mut_InRange_no_min(f, v) == v <= max_value[f]

InRange(f, v) == min_value[f] <= v /\ v <= max_value[f]

\* ------------------------------------------------------------- generator
\* The standard normal variates the generator can emit.
ZSet == {-3, 0, 3}

\* The generator's states: a state is the cycle of variates it will emit,
\* next one first.
RngStates == [0 .. TapeLen - 1 -> ZSet]

\* Variant: the draw also depends on whether the page already shows results.
Mut_Variate_page(r, i) == r[(i + (IF page.button THEN 1 ELSE 0)) % TapeLen]

\* The i-th variate (i = 0, 1, ...) drawn from state r.
Variate(r, i) == r[i % TapeLen]

\* Variant: draws clamped at zero.
Mut_normal_clamped(r, loc, scale, size) ==
  [i \in 1 .. size |->
     IF loc * Hundred + scale * r[(i - 1) % TapeLen] < 0 THEN 0
     ELSE loc * Hundred + scale * r[(i - 1) % TapeLen]]

\* np.random.normal(loc, scale, size): loc + scale * z per element, in
\* hundredths (loc in units, scale in hundredths).
normal(r, loc, scale, size) ==
  [i \in 1 .. size |-> loc * Hundred + scale * Variate(r, i - 1)]

\* The generator after k draws.
Advance(r, k) == [j \in 0 .. TapeLen - 1 |-> r[(j + k) % TapeLen]]

\* ------------------------------------------------------------ array maths
\* array * scalar
Times(a, c) == [i \in 1 .. Len(a) |-> a[i] * c]

\* array + array
Plus(a, b) == [i \in 1 .. Len(a) |-> a[i] + b[i]]

RECURSIVE Sum(_)
Sum(a) == IF a = <<>> THEN 0 ELSE Head(a) + Sum(Tail(a))

\* Variant: the first element is left out of the sum.
Mut_mean_skip(a) == [num |-> Sum(Tail(a)), den |-> Len(a)]

\* a.mean(): the pair sum / count
mean(a) == [num |-> Sum(a), den |-> Len(a)]

RECURSIVE Insert(_, _)
Insert(x, s) ==
  IF s = <<>> THEN <<x>>
  ELSE IF x <= Head(s) THEN <<x>> \o s
  ELSE <<Head(s)>> \o Insert(x, Tail(s))

RECURSIVE Sort(_)
Sort(a) == IF a = <<>> THEN <<>> ELSE Insert(Head(a), Sort(Tail(a)))

\* Variant: the array is not sorted first.
Mut_percentile_unsorted(a, q) ==
  LET virtual == (q * (Len(a) - 1)) \div 5
      previous == virtual \div Twenty
      gamma == virtual % Twenty
  IN  IF gamma = 0
        THEN a[previous + 1] * Twenty
        ELSE a[previous + 1] * Twenty + gamma * (a[previous + 2] - a[previous + 1])

\* Variant: method "lower", the order statistic below the virtual index.
Mut_percentile_lower(a, q) ==
  Sort(a)[((q * (Len(a) - 1)) \div 5) \div Twenty + 1] * Twenty

\* np.percentile(a, q), method "linear": the virtual index q/100 * (n-1) in
\* the sorted array, interpolated between its neighbours.  Times Twenty.
percentile(a, q) ==
  LET sorted == Sort(a)
      virtual == (q * (Len(a) - 1)) \div 5
      previous == virtual \div Twenty
      gamma == virtual % Twenty
  IN  IF gamma = 0
        THEN sorted[previous + 1] * Twenty
        ELSE sorted[previous + 1] * Twenty
               + gamma * (sorted[previous + 2] - sorted[previous + 1])

\* f"{x:,.0f}" of num / den (den > 0): the nearest whole number, ties to even.
Format0f(num, den) ==
  LET q == num \div den
      r == num % den
  IN  IF 2 * r < den THEN q
      ELSE IF 2 * r > den THEN q + 1
      ELSE IF q % 2 = 0 THEN q ELSE q + 1

\* ------------------------------------------------------ the simulation block
\* Each definition is the script local of the same name, computed from the
\* widget values w, the generator state r at entry and the trial count n.
mat_std(w) == w.material_cost * w.material_uncertainty

material_total(w, r, n) == normal(r, w.material_cost, mat_std(w), n)

labor_std(w) == w.machining_hours * w.labor_uncertainty

\* Variant: one draw too many.
Mut_labor_hours_sim_extra(w, r, n) ==
  normal(Advance(r, n), w.machining_hours, labor_std(w), n + 1)

\* Drawn after material_total, from the generator those n draws left.
labor_hours_sim(w, r, n) ==
  normal(Advance(r, n), w.machining_hours, labor_std(w), n)

labor_cost(w, r, n) == Times(labor_hours_sim(w, r, n), w.labor_rate)

direct_costs(w, r, n) == Plus(material_total(w, r, n), labor_cost(w, r, n))

total_quote(w, r, n) ==
  Times(Times(direct_costs(w, r, n), w.overhead_multiplier), w.profit_margin)

mean_cost(w, r, n) == mean(total_quote(w, r, n))

median_cost(w, r, n) == percentile(total_quote(w, r, n), 50)

p75(w, r, n) == percentile(total_quote(w, r, n), 75)

p90(w, r, n) == percentile(total_quote(w, r, n), 90)

\* The generator after the block: 2n draws were made.
RngAfter(r, n) == Advance(Advance(r, n), n)

\* Whole dollars shown for a percentile-scaled amount.
Dollars(x) == Format0f(x, QuoteScale * Twenty)

\* The four st.metric tiles with the two deltas.
metric(w, r, n) ==
  [expected |-> Format0f(mean_cost(w, r, n).num, mean_cost(w, r, n).den * QuoteScale),
   median |-> Dollars(median_cost(w, r, n)),
   conservative |-> Dollars(p75(w, r, n)),
   conservative_delta |-> Dollars(p75(w, r, n) - median_cost(w, r, n)),
   high |-> Dollars(p90(w, r, n)),
   high_delta |-> Dollars(p90(w, r, n) - median_cost(w, r, n))]

\* The 'Quote Price' column of the statistics table: 10th, 25th, 50th, 75th, 90th.
stats_df(w, r, n) ==
  <<Dollars(percentile(total_quote(w, r, n), 10)),
    Dollars(percentile(total_quote(w, r, n), 25)),
    Dollars(median_cost(w, r, n)),
    Dollars(p75(w, r, n)),
    Dollars(p90(w, r, n))>>

\* ---------------------------------------------------------------- reruns
\* A rerun whose button is False: the else branch.  No local of the
\* simulation block exists (empty arrays and 0 stand for "unassigned").
HintPage(w, r) ==
  [button |-> FALSE, view |-> "hint", used |-> w, rng_entry |-> r, draws |-> 0,
   material_total |-> <<>>, labor_hours_sim |-> <<>>, labor_cost |-> <<>>,
   direct_costs |-> <<>>, total_quote |-> <<>>,
   mean_cost |-> [num |-> 0, den |-> 0], median_cost |-> 0, p75 |-> 0, p90 |-> 0,
   p10 |-> 0, p25 |-> 0, metric |-> <<>>, stats_df |-> <<>>]

\* A rerun whose button is True: the simulation block and the results page.
ResultsPage(w, r, n) ==
  [button |-> TRUE, view |-> "results", used |-> w, rng_entry |-> r,
   draws |-> Len(material_total(w, r, n)) + Len(labor_hours_sim(w, r, n)),
   material_total |-> material_total(w, r, n),
   labor_hours_sim |-> labor_hours_sim(w, r, n),
   labor_cost |-> labor_cost(w, r, n),
   direct_costs |-> direct_costs(w, r, n),
   total_quote |-> total_quote(w, r, n),
   mean_cost |-> mean_cost(w, r, n),
   median_cost |-> median_cost(w, r, n),
   p75 |-> p75(w, r, n),
   p90 |-> p90(w, r, n),
   p10 |-> percentile(total_quote(w, r, n), 10),
   p25 |-> percentile(total_quote(w, r, n), 25),
   metric |-> metric(w, r, n),
   stats_df |-> stats_df(w, r, n)]

\* The first execution of the script: widgets at their value=, button False,
\* the generator seeded from the operating system.
Init ==
  /\ widget = value
  /\ n_simulations \in 1 .. MaxN
  /\ rng \in RngStates
  /\ page = HintPage(widget, rng)
  /\ invalid = "none"
  /\ first = [runs |-> 0, page |-> HintPage(value, [j \in 0 .. TapeLen - 1 |-> 0])]

\* Variant: the commit stores the value but the page is not rebuilt.
Mut_CommitWidget_stale(f, v) ==
  /\ v # widget[f]
  /\ min_value[f] <= v /\ v <= max_value[f]
  /\ widget' = [widget EXCEPT ![f] = v]
  /\ invalid' = "none"
  /\ UNCHANGED <<n_simulations, rng, page>>

\* The user commits a new in-range v in widget f: the session stores it and
\* the script reruns with the button False.
CommitWidget(f, v) ==
  /\ v # widget[f]
  /\ InRange(f, v)
  /\ widget' = [widget EXCEPT ![f] = v]
  /\ page' = HintPage(widget', rng)
  /\ invalid' = "none"
  /\ UNCHANGED <<n_simulations, rng>>

\* The user types an out-of-range v in number_input f: the widget keeps its
\* value and shows its range message; nothing is sent and nothing reruns.
RefuseEntry(f, v) ==
  /\ f \notin Sliders
  /\ ~InRange(f, v)
  /\ invalid # f
  /\ invalid' = f
  /\ UNCHANGED <<widget, n_simulations, rng, page>>

\* Variant: the run writes the drawn machining time back into its widget.
Mut_RunRiskAnalysis_writes ==
  /\ page' = ResultsPage(widget, rng, n_simulations)
  /\ rng' = RngAfter(rng, n_simulations)
  /\ invalid' = "none"
  /\ widget' = [widget EXCEPT !.machining_hours = 2]
  /\ UNCHANGED n_simulations

\* The user presses 'Run Risk Analysis': the script reruns with the button True.
RunRiskAnalysis ==
  /\ page' = ResultsPage(widget, rng, n_simulations)
  /\ rng' = RngAfter(rng, n_simulations)
  /\ invalid' = "none"
  /\ UNCHANGED <<widget, n_simulations>>

\* The reruns: every step re-executes the script.
Next ==
  \/ (\E f \in Fields : \E v \in Entries[f] : CommitWidget(f, v)) /\ UNCHANGED first
  \/ RunRiskAnalysis /\ UNCHANGED first

Spec == Init /\ [][Next]_vars

\* The reruns and the refused entries, for generators that repeat one variate.
InitEntry == Init /\ \A i \in DOMAIN rng : rng[i] = rng[0]

NextEntry ==
  \/ (\E f \in Fields : \E v \in Entries[f] : CommitWidget(f, v)) /\ UNCHANGED first
  \/ (\E f \in Fields : \E v \in Entries[f] : RefuseEntry(f, v)) /\ UNCHANGED first
  \/ RunRiskAnalysis /\ UNCHANGED first

SpecEntry == InitEntry /\ [][NextEntry]_vars

\* The reruns with the first run remembered, to compare later runs with it.
\* Only the material uncertainty is edited; the generator comes back to an
\* earlier state because its cycle is short.
Remember ==
  first' = IF first.runs = 0 THEN [runs |-> 1, page |-> page']
           ELSE [first EXCEPT !.runs = 2]

NextSeed ==
  \/ (\E v \in Entries.material_uncertainty : CommitWidget("material_uncertainty", v))
       /\ UNCHANGED first
  \/ RunRiskAnalysis /\ Remember

SpecSeed == Init /\ [][NextSeed]_vars

\* ------------------------------------------------------------- properties
Range(a) == {a[i] : i \in DOMAIN a}

Min(S) == CHOOSE x \in S : \A y \in S : x <= y

Max(S) == CHOOSE x \in S : \A y \in S : y <= x

\* The k-th smallest element of a (k = 1 .. Len(a)), by counting.
OrderStat(a, k) ==
  CHOOSE v \in Range(a) :
    /\ Cardinality({i \in DOMAIN a : a[i] < v}) < k
    /\ k <= Cardinality({i \in DOMAIN a : a[i] <= v})

\* a interpolated at q / 100 * (Len(a) - 1) between order statistics, times Twenty.
Interpolated(a, q) ==
  LET pos == (q * (Len(a) - 1)) \div 5
      k == pos \div Twenty
      f == pos % Twenty
  IN  IF f = 0 THEN OrderStat(a, k + 1) * Twenty
      ELSE OrderStat(a, k + 1) * Twenty
             + f * (OrderStat(a, k + 2) - OrderStat(a, k + 1))

Perms(n) == {f \in [1 .. n -> 1 .. n] : \A i, j \in 1 .. n : f[i] = f[j] => i = j}

Permuted(a, f) == [i \in 1 .. Len(a) |-> a[f[i]]]

\* The five percentiles of the results page: 10, 25, 50, 75, 90.
Shown == <<page.p10, page.p25, page.median_cost, page.p75, page.p90>>

Quantiles == <<10, 25, 50, 75, 90>>

\* C1: on every results page the percentiles are ordered,
\* p10 <= p25 <= p50 <= p75 <= p90, as values and as the whole dollars of the
\* table, and the two deltas shown (p75 - p50, p90 - p50) are not negative.
C1_PercentilesOrdered ==
  page.button =>
    /\ \A i \in 1 .. 4 : Shown[i] <= Shown[i + 1]
    /\ \A i \in 1 .. 4 : page.stats_df[i] <= page.stats_df[i + 1]
    /\ page.p75 - page.median_cost >= 0
    /\ page.p90 - page.median_cost >= 0
    /\ page.metric.conservative_delta >= 0
    /\ page.metric.high_delta >= 0

\* A results page over at least two trials whose samples are out of order,
\* one of them negative, and whose percentiles differ.
C1_Witness ==
  /\ page.button
  /\ n_simulations >= 2
  /\ page.total_quote[1] > page.total_quote[2]
  /\ \E i \in DOMAIN page.total_quote : page.total_quote[i] < 0
  /\ page.p10 < page.median_cost
  /\ page.median_cost < page.p90

\* C5: on every results page the material draws, the labor-hour draws, the
\* labor costs, the direct costs and the total quotes have exactly
\* n_simulations elements each.
C5_SampleCount ==
  page.button =>
    /\ Len(page.material_total) = n_simulations
    /\ Len(page.labor_hours_sim) = n_simulations
    /\ Len(page.labor_cost) = n_simulations
    /\ Len(page.direct_costs) = n_simulations
    /\ Len(page.total_quote) = n_simulations

C5_Witness == page.button /\ n_simulations = MaxN /\ Len(page.total_quote) = MaxN

\* C6: for every trial i the total quote is
\* (material_total[i] + labor_hours_sim[i] * labor_rate) * overhead * profit,
\* pairing the i-th draws, where each draw is loc + scale * variate with no
\* clamping, so a negative draw passes through unchanged.
C6_TrialFormula ==
  page.button =>
    \A i \in 1 .. n_simulations :
      /\ page.material_total[i] =
           page.used.material_cost * Hundred
             + page.used.material_cost * page.used.material_uncertainty
                 * page.rng_entry[(i - 1) % TapeLen]
      /\ page.labor_hours_sim[i] =
           page.used.machining_hours * Hundred
             + page.used.machining_hours * page.used.labor_uncertainty
                 * page.rng_entry[(n_simulations + i - 1) % TapeLen]
      /\ page.total_quote[i] =
           (page.material_total[i] + page.labor_hours_sim[i] * page.used.labor_rate)
             * page.used.overhead_multiplier * page.used.profit_margin

\* A results page with a trial whose material draw, labor-hour draw and total
\* are all negative, next to a trial with a different material draw.
C6_Witness ==
  /\ page.button
  /\ \E i, j \in DOMAIN page.total_quote :
       /\ page.material_total[i] < 0
       /\ page.labor_hours_sim[i] < 0
       /\ page.total_quote[i] < 0
       /\ page.material_total[j] # page.material_total[i]
       /\ page.labor_hours_sim[j] # page.labor_hours_sim[i]

\* C8: each of the five percentiles is the linear interpolation between the
\* adjacent order statistics of total_quote at position q/100 * (n-1); for
\* n = 1 all five equal the single sample; each lies between the smallest and
\* the largest sample; and no reordering of the samples changes it.
C8_Interpolation ==
  page.button =>
    /\ \A i \in 1 .. 5 : Shown[i] = Interpolated(page.total_quote, Quantiles[i])
    /\ n_simulations = 1 =>
         \A i \in 1 .. 5 : Shown[i] = page.total_quote[1] * Twenty
    /\ \A i \in 1 .. 5 :
         /\ Min(Range(page.total_quote)) * Twenty <= Shown[i]
         /\ Shown[i] <= Max(Range(page.total_quote)) * Twenty
    /\ \A f \in Perms(n_simulations) : \A i \in 1 .. 5 :
         percentile(Permuted(page.total_quote, f), Quantiles[i]) = Shown[i]

\* A results page over MaxN unsorted, pairwise different samples, with a
\* percentile strictly between two of them.
C8_Witness ==
  /\ page.button
  /\ n_simulations = MaxN
  /\ Cardinality(Range(page.total_quote)) = MaxN
  /\ page.total_quote # Sort(page.total_quote)
  /\ \E i \in 1 .. 5 : \A j \in 1 .. MaxN : Shown[i] # page.total_quote[j] * Twenty

\* C9: the mean is the sum of the n total quotes over n, and it is linear in
\* the draws: sum = (sum(material_total) + labor_rate * sum(labor_hours_sim))
\* * overhead * profit.  With both multipliers 1.0 and draws that average to
\* their point estimates it is material_cost + machining_hours * labor_rate.
\* It lies between the smallest and the largest sample.
C9_MeanLinear ==
  page.button =>
    /\ page.mean_cost.den = n_simulations
    /\ page.mean_cost.num =
         (Sum(page.material_total) + page.used.labor_rate * Sum(page.labor_hours_sim))
           * page.used.overhead_multiplier * page.used.profit_margin
    /\ ( /\ page.used.overhead_multiplier = Step
         /\ page.used.profit_margin = Step
         /\ Sum(page.material_total) = n_simulations * page.used.material_cost * Hundred
         /\ Sum(page.labor_hours_sim) = n_simulations * page.used.machining_hours * Hundred )
       => page.mean_cost.num =
            page.mean_cost.den * QuoteScale
              * (page.used.material_cost
                   + page.used.machining_hours * page.used.labor_rate)
    /\ Min(Range(page.total_quote)) * page.mean_cost.den <= page.mean_cost.num
    /\ page.mean_cost.num <= Max(Range(page.total_quote)) * page.mean_cost.den

\* A results page with both multipliers 1.0 whose draws differ and average to
\* the point estimates.
C9_Witness ==
  /\ page.button
  /\ n_simulations >= 2
  /\ page.used.overhead_multiplier = Step
  /\ page.used.profit_margin = Step
  /\ page.material_total[1] # page.material_total[2]
  /\ Sum(page.material_total) = n_simulations * page.used.material_cost * Hundred
  /\ Sum(page.labor_hours_sim) = n_simulations * page.used.machining_hours * Hundred

C7_NoSideEffects ==
  [][ /\ n_simulations' = n_simulations
      /\ page'.button =>
           /\ widget' = widget
           /\ \A j \in DOMAIN rng : rng'[j] = rng[(j + 2 * n_simulations) % TapeLen]
      /\ (page.button /\ ~page'.button) =>
           /\ page'.material_total = <<>>
           /\ page'.labor_hours_sim = <<>>
           /\ page'.total_quote = <<>>
           /\ page'.metric = <<>>
           /\ page'.stats_df = <<>>
           /\ rng' = rng ]_vars

\* A results page computed after the parameters were edited away from their
\* initial values, the generator having moved.
C7_Witness ==
  /\ page.button
  /\ widget # value
  /\ rng # page.rng_entry

\* C10: every rerun either ran the simulation once, when the button was
\* pressed (2n draws, the n material draws first, then the n labor-hour
\* draws), or not at all (no draw, the generator untouched, the hint and no
\* statistics); and what a page shows was computed from the widget values of
\* that rerun.
C10_RunOncePerPress ==
  [][ /\ page'.used = widget'
      /\ IF page'.button
           THEN /\ page'.view = "results"
                /\ page'.draws = 2 * n_simulations
                /\ \A i \in 1 .. n_simulations :
                     /\ page'.material_total[i] =
                          widget.material_cost * Hundred
                            + widget.material_cost * widget.material_uncertainty
                                * rng[(i - 1) % TapeLen]
                     /\ page'.labor_hours_sim[i] =
                          widget.machining_hours * Hundred
                            + widget.machining_hours * widget.labor_uncertainty
                                * rng[(n_simulations + i - 1) % TapeLen]
                /\ \A j \in DOMAIN rng :
                     rng'[j] = rng[(j + 2 * n_simulations) % TapeLen]
           ELSE /\ page'.view = "hint"
                /\ page'.draws = 0
                /\ page'.total_quote = <<>>
                /\ page'.metric = <<>>
                /\ page'.stats_df = <<>>
                /\ rng' = rng ]_vars

\* A results page whose material and labor-hour variates differ, reached
\* after an edit.
C10_Witness ==
  /\ page.button
  /\ page.draws = 2 * n_simulations
  /\ widget # value
  /\ page.rng_entry[0] # page.rng_entry[n_simulations % TapeLen]

====
